---- MODULE Spec2Model ----
(***************************************************************************)
(* A model of dmt's path-expression core: the Value tree (value.rs), the   *)
(* lazy Selector chain and its nom parsers (selector.rs), and the driver   *)
(* (main.rs).                                                              *)
(*                                                                         *)
(* Text is a sequence of one-character strings.  Field names and map keys  *)
(* are such sequences too, so that a parsed name can be looked up in a     *)
(* map.  An Option / a boxed Option iterator is a sequence of length 0     *)
(* or 1 (the items still to be yielded).                                   *)
(***************************************************************************)
EXTENDS Integers, Sequences, FiniteSets, TLC

VARIABLES
    v,        \* the Value given to try_match
    sels,     \* the Vec<UnionSelector> given to Selector::from_vec
    phase,    \* where the consumer of the selector stream is
    iter,     \* the boxed iterator returned by Selector::try_match
    log,      \* ghost: every step application so far, in order
    out,      \* the elements the consumer has received
    pulls,    \* the number of next() calls the consumer has made
    mpos,     \* matcher chain: the number of the step to apply next
    mcur,     \* matcher chain: the current Value
    mres,     \* matcher chain: running, or its Result
    mapplied, \* ghost: the number of steps the matcher chain has applied
    text,     \* the input text given to a parser
    num,      \* the integer the text was formatted from (-1: none)
    pkind,    \* which parser was called ("none": not yet)
    pres,     \* the IResult the parser returned
    doc,      \* driver: what decoding the input bytes gives
    expr,     \* driver: cmd.expr, an Option<String>
    pc,       \* driver: the position of main
    content,  \* driver: the local `content`
    chain,    \* driver: the parsed chain `m`
    leftover, \* driver: the unparsed text `s`
    output,   \* driver: the Values written to the output
    stderr,   \* driver: the Values dbg! has printed
    why,      \* driver: the reason of the panic ("": none)
    stages    \* ghost: the stages of main that have succeeded, in order

selVars == <<phase, iter, log, out, pulls>>

matchVars == <<mpos, mcur, mres, mapplied>>

parseVars == <<text, num, pkind, pres>>

driverVars == <<doc, expr, pc, content, chain, leftover, output, stderr, why, stages>>

vars == <<v, sels, selVars, matchVars, parseVars, driverVars>>

-----------------------------------------------------------------------------
(* Bounds of the model *)

MaxLen == 2

MaxChain == 3

MaxPulls == 2

MaxText == 6

MaxExpr == 3

\* The width of usize in the model, in bits (the target's is 32 or 64).
UsizeBits == 4

-----------------------------------------------------------------------------
(* value.rs: enum Value *)

VUnit == [k |-> "Unit"]

VInt(n) == [k |-> "Int", i |-> n]

VMap(m) == [k |-> "Map", m |-> m]

VList(l) == [k |-> "List", l |-> l]

\* The String keys that occur in the maps of the model.
Keys == {<<"a">>, <<"b">>}

Leaves == {VUnit, VInt(5)}

MapsOver(S) == UNION {[D -> S] : D \in SUBSET Keys}

ListsOver(S) == UNION {[1..n -> S] : n \in 0..MaxLen}

IsLeaf(x) == x.k \notin {"Map", "List"}

\* Leaves, and maps and lists of leaves.
Shallow == Leaves \cup {VMap(m) : m \in MapsOver(Leaves)}
                  \cup {VList(l) : l \in ListsOver(Leaves)}

\* A path visits one child per level: of the children of a nested value at
\* most one is itself a map or a list, the others are leaves.
OneDeep(f) == Cardinality({x \in DOMAIN f : ~IsLeaf(f[x])}) <= 1

Values == Leaves \cup {VMap(m) : m \in {f \in MapsOver(Shallow) : OneDeep(f)}}
                 \cup {VList(l) : l \in {f \in ListsOver(Shallow) : OneDeep(f)}}

-----------------------------------------------------------------------------
(* selector.rs: the steps *)

SName(s) == [kind |-> "Name", name |-> s]

SIndex(n) == [kind |-> "Index", idx |-> n]

Steps == {SName(s) : s \in Keys} \cup {SIndex(n) : n \in 0..(MaxLen - 1)}

Chains == UNION {[1..n -> Steps] : n \in 0..MaxChain}

\* empty_result!() and single_result!(x)
empty_result == << >>

single_result(x) == <<x>>

\* A plausible slip: an absent key yields the default Value instead of nothing.
NameSelector_try_match_default(self, val) ==
    IF val.k = "Map"
    THEN IF self.name \in DOMAIN val.m
         THEN single_result(val.m[self.name])
         ELSE single_result(VUnit)
    ELSE empty_result

NameSelector_try_match(self, val) ==
    IF val.k = "Map"
    THEN IF self.name \in DOMAIN val.m
         THEN single_result(val.m[self.name])
         ELSE empty_result
    ELSE empty_result

\* A plausible slip: the bounds check is one too strict (idx < len - 1).
IndexSelector_try_match_strict(self, val) ==
    IF val.k = "List"
    THEN IF self.idx + 1 < Len(val.l)
         THEN single_result(val.l[self.idx + 1])
         ELSE empty_result
    ELSE empty_result

\* Vec indices start at 0, sequence indices at 1.
IndexSelector_try_match(self, val) ==
    IF val.k = "List"
    THEN IF self.idx < Len(val.l)
         THEN single_result(val.l[self.idx + 1])
         ELSE empty_result
    ELSE empty_result

UnionSelector_try_match(self, val) ==
    IF self.kind = "Name"
    THEN NameSelector_try_match(self, val)
    ELSE IndexSelector_try_match(self, val)

-----------------------------------------------------------------------------
(* selector.rs: enum Selector, a linked list of steps *)

Nil == [tag |-> "Nil"]

Node(sel, next) == [tag |-> "Node", sel |-> sel, next |-> next]

\* The loop of from_vec: the steps not yet consumed are ss[1..i], taken from
\* the back (into_iter().rev()), each put in front of the chain built so far.
RECURSIVE FromVecLoop(_, _, _)
FromVecLoop(ss, i, sel) ==
    IF i = 0 THEN sel ELSE FromVecLoop(ss, i - 1, Node(ss[i], sel))

\* A plausible slip: the loop without .rev(), which links the steps backwards.
RECURSIVE FromVecForward(_, _, _)
FromVecForward(ss, i, sel) ==
    IF i > Len(ss) THEN sel ELSE FromVecForward(ss, i + 1, Node(ss[i], sel))

from_vec_forward(ss) == FromVecForward(ss, 1, Nil)

from_vec(ss) == FromVecLoop(ss, Len(ss), Nil)

\* The iterators Selector::try_match builds.  "Once" is Option::into_iter;
\* "FlatMap" is iter.flat_map(f) with f = move |child| next.try_match(&child):
\* `iter` holds what the outer Option iterator has left, `f` the captured
\* `next`, `front` the inner iterator being drained (std's frontiter).
Once(items) == [it |-> "Once", items |-> items]

FlatMap(items, next) ==
    [it |-> "FlatMap", iter |-> items, f |-> next, front |-> << >>]

\* One application of a step, as the ghost log records it.
Applied(sel, val) ==
    [sel |-> sel, on |-> val, res |-> UnionSelector_try_match(sel, val)]

RECURSIVE IterNext(_)

\* A plausible slip: the chain is evaluated to its end inside the call and the
\* result handed out as a finished Option (eager, then truncate).
Selector_try_match_eager(self, val) ==
    IF self.tag = "Nil"
    THEN [it |-> Once(single_result(val)), log |-> << >>]
    ELSE LET r == IterNext(FlatMap(UnionSelector_try_match(self.sel, val),
                                   self.next))
         IN  [it |-> Once(r.out), log |-> <<Applied(self.sel, val)>> \o r.log]

\* Selector::try_match(&self, v): the iterator, and the step applications the
\* call itself makes.  sel.try_match(v) runs in the call; the closure given
\* to flat_map runs only when the iterator is advanced.
Selector_try_match(self, val) ==
    IF self.tag = "Nil"
    THEN [it |-> Once(single_result(val)), log |-> << >>]
    ELSE [it |-> FlatMap(UnionSelector_try_match(self.sel, val), self.next),
          log |-> <<Applied(self.sel, val)>>]

\* Iterator::next on such an iterator: the iterator afterwards, the element
\* yielded (none: << >>) and the step applications the call made.
IterNext(it) ==
    IF it.it = "Once"
    THEN IF it.items = << >>
         THEN [it |-> it, out |-> << >>, log |-> << >>]
         ELSE [it |-> Once(<< >>), out |-> <<Head(it.items)>>, log |-> << >>]
    ELSE IF it.front # << >>
         THEN LET r == IterNext(it.front[1])
              IN  IF r.out # << >>
                  THEN [it |-> [it EXCEPT !.front = <<r.it>>],
                        out |-> r.out, log |-> r.log]
                  ELSE LET r2 == IterNext([it EXCEPT !.front = << >>])
                       IN  [r2 EXCEPT !.log = r.log \o r2.log]
         ELSE IF it.iter = << >>
              THEN [it |-> it, out |-> << >>, log |-> << >>]
              ELSE LET c == Selector_try_match(it.f, Head(it.iter))
                       r == IterNext([it EXCEPT !.iter = << >>,
                                                !.front = <<c.it>>])
                   IN  [r EXCEPT !.log = c.log \o r.log]

-----------------------------------------------------------------------------
(* selector.rs: the parsers, and the nom combinators they are built from *)

\* The characters of the texts of the model.
Chars == {"a", "0", "9", ".", "[", "]"}

TextsOver(C, n) == UNION {[1..j -> C] : j \in 0..n}

Digits == <<"0", "1", "2", "3", "4", "5", "6", "7", "8", "9">>

AsciiDigit == {Digits[j] : j \in 1..10}

AsciiAlpha ==
    {"a", "b", "c", "d", "e", "f", "g", "h", "i", "j", "k", "l", "m",
     "n", "o", "p", "q", "r", "s", "t", "u", "v", "w", "x", "y", "z",
     "A", "B", "C", "D", "E", "F", "G", "H", "I", "J", "K", "L", "M",
     "N", "O", "P", "Q", "R", "S", "T", "U", "V", "W", "X", "Y", "Z"}

\* nom::character::is_alphabetic
is_alphabetic(c) == c \in AsciiAlpha

\* The characters AsChar::is_alphanum accepts.
AlphaNum == AsciiAlpha \cup AsciiDigit

\* char::to_digit(10) of a decimal digit
DigitValue(c) == (CHOOSE j \in 1..10 : Digits[j] = c) - 1

\* usize::MAX
UsizeMax == 2 ^ UsizeBits - 1

\* IResult: Ok((rest, val)) and Err(Error(kind)).
POk(rest, val) == [ok |-> TRUE, rest |-> rest, val |-> val]

PErr(kind) == [ok |-> FALSE, kind |-> kind]

\* The length of the longest prefix of input whose characters are all in S.
RECURSIVE RunLen(_, _)
RunLen(input, S) ==
    IF input = << >> \/ Head(input) \notin S
    THEN 0
    ELSE 1 + RunLen(Tail(input), S)

SplitAt(input, n) == POk(SubSeq(input, n + 1, Len(input)), SubSeq(input, 1, n))

\* nom::character::complete::alphanumeric1
alphanumeric1(input) ==
    LET n == RunLen(input, AlphaNum)
    IN  IF n = 0 THEN PErr("AlphaNumeric") ELSE SplitAt(input, n)

\* nom::character::complete::digit1
digit1(input) ==
    LET n == RunLen(input, AsciiDigit)
    IN  IF n = 0 THEN PErr("Digit") ELSE SplitAt(input, n)

\* nom::bytes::complete::tag
tag(t, input) ==
    IF Len(input) >= Len(t) /\ SubSeq(input, 1, Len(t)) = t
    THEN SplitAt(input, Len(t))
    ELSE PErr("Tag")

\* A plausible slip: wrapping arithmetic instead of checked arithmetic.
RECURSIVE ParseUsizeWrap(_, _)
ParseUsizeWrap(s, acc) ==
    IF s = << >>
    THEN [ok |-> TRUE, val |-> acc]
    ELSE ParseUsizeWrap(Tail(s),
                        (acc * 10 + DigitValue(Head(s))) % (UsizeMax + 1))

\* str::parse::<usize>() on a run of digits: the digits are accumulated
\* with checked_mul(10) and checked_add(digit); an overflow is an error.
RECURSIVE ParseUsizeLoop(_, _)
ParseUsizeLoop(s, acc) ==
    IF s = << >>
    THEN [ok |-> TRUE, val |-> acc]
    ELSE IF acc * 10 > UsizeMax
         THEN [ok |-> FALSE]
         ELSE IF acc * 10 + DigitValue(Head(s)) > UsizeMax
              THEN [ok |-> FALSE]
              ELSE ParseUsizeLoop(Tail(s), acc * 10 + DigitValue(Head(s)))

parse_usize_wrapping(s) == ParseUsizeWrap(s, 0)

parse_usize(s) == ParseUsizeLoop(s, 0)

\* A plausible slip: the check of the first character is left out.
NameSelector_parse_any(input) == alphanumeric1(input)

\* NameSelector::parse: map_res(alphanumeric1, ...); the value is the String
\* of the NameSelector.
NameSelector_parse(input) ==
    LET r == alphanumeric1(input)
    IN  IF ~r.ok
        THEN r
        ELSE IF is_alphabetic(r.val[1])
             THEN POk(r.rest, r.val)
             ELSE PErr("MapRes")

\* IndexSelector::parse: delimited(tag("["), map_res(digit1, parse), tag("]"));
\* the value is the usize of the IndexSelector.
IndexSelector_parse(input) ==
    LET open == tag(<<"[">>, input)
    IN  IF ~open.ok
        THEN open
        ELSE LET run == digit1(open.rest)
             IN  IF ~run.ok
                 THEN run
                 ELSE LET n == parse_usize(run.val)
                      IN  IF ~n.ok
                          THEN PErr("MapRes")
                          ELSE LET close == tag(<<"]">>, run.rest)
                               IN  IF ~close.ok
                                   THEN close
                                   ELSE POk(close.rest, n.val)

\* UnionSelector::parse: alt((map(NameSelector::parse, Name),
\*                           map(IndexSelector::parse, Index)))
UnionSelector_parse(input) ==
    LET name == NameSelector_parse(input)
    IN  IF name.ok
        THEN POk(name.rest, SName(name.val))
        ELSE LET index == IndexSelector_parse(input)
             IN  IF index.ok
                 THEN POk(index.rest, SIndex(index.val))
                 ELSE index

\* The loop of nom::multi::separated_list1(tag("."), UnionSelector::parse)
\* after the first element: a separator not followed by an element ends the
\* list in front of the separator.
RECURSIVE SeparatedLoop(_, _)
SeparatedLoop(i, res) ==
    LET sep == tag(<<".">>, i)
    IN  IF ~sep.ok
        THEN POk(i, res)
        ELSE IF Len(sep.rest) = Len(i)
             THEN PErr("SeparatedList")
             ELSE LET elem == UnionSelector_parse(sep.rest)
                  IN  IF ~elem.ok
                      THEN POk(i, res)
                      ELSE SeparatedLoop(elem.rest, Append(res, elem.val))

\* A plausible slip: a separator not followed by an element is consumed.
RECURSIVE SeparatedLoopTrailing(_, _)
SeparatedLoopTrailing(i, res) ==
    LET sep == tag(<<".">>, i)
    IN  IF ~sep.ok
        THEN POk(i, res)
        ELSE LET elem == UnionSelector_parse(sep.rest)
             IN  IF ~elem.ok
                 THEN POk(sep.rest, res)
                 ELSE SeparatedLoopTrailing(elem.rest, Append(res, elem.val))

separated_list1_trailing(input) ==
    LET first == UnionSelector_parse(input)
    IN  IF ~first.ok
        THEN first
        ELSE SeparatedLoopTrailing(first.rest, <<first.val>>)

\* A plausible slip: separated_list0, which accepts no element at all.
separated_list0(input) ==
    LET first == UnionSelector_parse(input)
    IN  IF ~first.ok
        THEN POk(input, << >>)
        ELSE SeparatedLoop(first.rest, <<first.val>>)

separated_list1(input) ==
    LET first == UnionSelector_parse(input)
    IN  IF ~first.ok
        THEN first
        ELSE SeparatedLoop(first.rest, <<first.val>>)

\* Selector::parse: map(separated_list1(...), Selector::from_vec)
Selector_parse(input) ==
    LET r == separated_list1(input)
    IN  IF ~r.ok THEN r ELSE POk(r.rest, from_vec(r.val))

-----------------------------------------------------------------------------
(* The consumer of a selector stream *)

NoIter == [it |-> "None"]

\* The variables of the selector stream, and of the matcher chain, in a
\* specification that does not use them.
SelOff ==
    /\ phase = "off"
    /\ iter = NoIter
    /\ log = << >>
    /\ out = << >>
    /\ pulls = 0

MatchOff ==
    /\ mpos = 0
    /\ mcur = VUnit
    /\ mres = [st |-> "off"]
    /\ mapplied = 0

ParseOff ==
    /\ text = << >>
    /\ num = -1
    /\ pkind = "off"
    /\ pres = [ok |-> FALSE, kind |-> "off"]

DriverOff ==
    /\ doc = [ok |-> FALSE]
    /\ expr = << >>
    /\ pc = "off"
    /\ content = VUnit
    /\ chain = << >>
    /\ leftover = << >>
    /\ output = << >>
    /\ stderr = << >>
    /\ why = ""
    /\ stages = << >>

InitSel ==
    /\ v \in Values
    /\ sels \in Chains
    /\ phase = "idle"
    /\ iter = NoIter
    /\ log = << >>
    /\ out = << >>
    /\ pulls = 0
    /\ MatchOff
    /\ ParseOff
    /\ DriverOff

\* let stream = Selector::from_vec(sels).try_match(&v);
Create ==
    /\ phase = "idle"
    /\ LET c == Selector_try_match(from_vec(sels), v)
       IN  /\ iter' = c.it
           /\ log' = log \o c.log
    /\ phase' = "created"
    /\ UNCHANGED <<v, sels, out, pulls, matchVars, parseVars, driverVars>>

\* stream.next(), also after the stream has returned None.
Pull ==
    /\ phase \in {"created", "exhausted"}
    /\ pulls < MaxPulls
    /\ LET r == IterNext(iter)
       IN  /\ iter' = r.it
           /\ log' = log \o r.log
           /\ out' = out \o r.out
           /\ phase' = IF r.out = << >> THEN "exhausted" ELSE "created"
    /\ pulls' = pulls + 1
    /\ UNCHANGED <<v, sels, matchVars, parseVars, driverVars>>

\* The consumer drops the stream, whether or not it has seen its end.
Drop ==
    /\ phase \in {"created", "exhausted"}
    /\ phase' = "dropped"
    /\ iter' = NoIter
    /\ UNCHANGED <<v, sels, log, out, pulls, matchVars, parseVars, driverVars>>

NextSel == Create \/ Pull \/ Drop

Spec == InitSel /\ [][NextSel]_vars

-----------------------------------------------------------------------------
(* The matcher chain that main.rs calls (MatcherChain::parse, try_match).   *)
(* Its source is not among the repository's files; it is modelled from      *)
(* sections 4.2 and 7 of the specification.                                 *)

MatchOk(x) == [ok |-> TRUE, val |-> x]

NotAMap == [ok |-> FALSE, err |-> "value is not a map"]

NoSuchKey(s) == [ok |-> FALSE, err |-> "map does not contain key", key |-> s]

NotAList == [ok |-> FALSE, err |-> "value is not a list"]

OutOfRange(n) == [ok |-> FALSE, err |-> "index out of range", idx |-> n]

\* A plausible slip: a name step on a non-Map reports a missing key.
Matcher_step_lookup(step, val) ==
    IF step.kind = "Name"
    THEN IF val.k = "Map" /\ step.name \in DOMAIN val.m
         THEN MatchOk(val.m[step.name])
         ELSE NoSuchKey(step.name)
    ELSE IF val.k # "List"
         THEN NotAList
         ELSE IF step.idx >= Len(val.l)
              THEN OutOfRange(step.idx)
              ELSE MatchOk(val.l[step.idx + 1])

\* One matcher step applied to the current Value.
Matcher_step(step, val) ==
    IF step.kind = "Name"
    THEN IF val.k # "Map"
         THEN NotAMap
         ELSE IF step.name \notin DOMAIN val.m
              THEN NoSuchKey(step.name)
              ELSE MatchOk(val.m[step.name])
    ELSE IF val.k # "List"
         THEN NotAList
         ELSE IF step.idx >= Len(val.l)
              THEN OutOfRange(step.idx)
              ELSE MatchOk(val.l[step.idx + 1])

Running == [st |-> "run"]

InitMatch ==
    /\ v \in Values
    /\ sels \in Chains
    /\ mpos = 1
    /\ mcur = v
    /\ mres = Running
    /\ mapplied = 0
    /\ SelOff
    /\ ParseOff
    /\ DriverOff

\* The fold of the chain, one step at a time: the step is applied to the
\* current Value; an error ends the evaluation with that error.
MatchApply ==
    /\ mres = Running
    /\ mpos <= Len(sels)
    /\ LET r == Matcher_step(sels[mpos], mcur)
       IN  IF r.ok
           THEN /\ mcur' = r.val
                /\ mpos' = mpos + 1
                /\ mres' = mres
           ELSE /\ mres' = [st |-> "err", e |-> r]
                /\ UNCHANGED <<mcur, mpos>>
    /\ mapplied' = mapplied + 1
    /\ UNCHANGED <<v, sels, selVars, parseVars, driverVars>>

\* No step is left: the current Value is the result.
MatchReturn ==
    /\ mres = Running
    /\ mpos > Len(sels)
    /\ mres' = [st |-> "ok", val |-> mcur]
    /\ UNCHANGED <<v, sels, mpos, mcur, mapplied, selVars, parseVars, driverVars>>

NextMatch == MatchApply \/ MatchReturn

SpecMatch == InitMatch /\ [][NextMatch]_vars

-----------------------------------------------------------------------------
(* A caller of the parsers *)

\* n.to_string()
RECURSIVE Decimal(_)
Decimal(n) ==
    IF n < 10
    THEN <<Digits[n + 1]>>
    ELSE Append(Decimal(n \div 10), Digits[(n % 10) + 1])

\* The largest integer whose bracketed text is parsed.
NumTop == 4 * (UsizeMax + 1)

Unparsed == [ok |-> FALSE, kind |-> "none"]

InitParse ==
    /\ \/ /\ text \in TextsOver(Chars, MaxText)
          /\ num = -1
       \/ /\ num \in 0..NumTop
          /\ text = <<"[">> \o Decimal(num) \o <<"]">>
    /\ pkind = "none"
    /\ pres = Unparsed
    /\ v = VUnit
    /\ sels = << >>
    /\ SelOff
    /\ MatchOff
    /\ DriverOff

ParseName ==
    /\ pkind = "none"
    /\ pkind' = "name"
    /\ pres' = NameSelector_parse(text)
    /\ UNCHANGED <<v, sels, selVars, matchVars, text, num, driverVars>>

ParseIndex ==
    /\ pkind = "none"
    /\ pkind' = "index"
    /\ pres' = IndexSelector_parse(text)
    /\ UNCHANGED <<v, sels, selVars, matchVars, text, num, driverVars>>

ParseStep ==
    /\ pkind = "none"
    /\ pkind' = "step"
    /\ pres' = UnionSelector_parse(text)
    /\ UNCHANGED <<v, sels, selVars, matchVars, text, num, driverVars>>

ParseChain ==
    /\ pkind = "none"
    /\ pkind' = "chain"
    /\ pres' = Selector_parse(text)
    /\ UNCHANGED <<v, sels, selVars, matchVars, text, num, driverVars>>

NextParse == ParseName \/ ParseIndex \/ ParseStep \/ ParseChain

SpecParse == InitParse /\ [][NextParse]_vars

-----------------------------------------------------------------------------
(* main.rs: the driver *)

\* MatcherChain::parse, which the specification gives the grammar and the
\* step parsers of Selector::parse; the chain is the sequence of its steps.
MatcherChain_parse(input) == separated_list1(input)

\* MatcherChain::try_match: the fold of the steps over the current Value,
\* returning at the first error.
RECURSIVE MatcherFold(_, _, _)
MatcherFold(ss, n, val) ==
    IF n > Len(ss)
    THEN MatchOk(val)
    ELSE LET r == Matcher_step(ss[n], val)
         IN  IF r.ok THEN MatcherFold(ss, n + 1, r.val) ELSE r

MatcherChain_try_match(ss, val) == MatcherFold(ss, 1, val)

\* What the decoder makes of the input bytes: a Value, or an error.
Docs == {[ok |-> TRUE, val |-> x] : x \in Shallow} \cup {[ok |-> FALSE]}

InitDriver ==
    /\ doc \in Docs
    /\ expr \in {<< >>} \cup {<<t>> : t \in TextsOver(Chars, MaxExpr)}
    /\ pc = "start"
    /\ content = VUnit
    /\ chain = << >>
    /\ leftover = << >>
    /\ output = << >>
    /\ stderr = << >>
    /\ why = ""
    /\ stages = << >>
    /\ v = VUnit
    /\ sels = << >>
    /\ SelOff
    /\ MatchOff
    /\ ParseOff

\* An unwrap() of an Err or a panic!: the process ends, nothing is written.
Panic(reason) ==
    /\ pc' = "aborted"
    /\ why' = reason
    /\ UNCHANGED <<content, chain, leftover, output, stderr, stages>>

Others == <<v, sels, selVars, matchVars, parseVars, doc, expr>>

\* let mut input = get_input(cmd.input.as_ref()).unwrap();
OpenInput ==
    /\ pc = "start"
    /\ \E opened \in BOOLEAN :
          IF opened
          THEN /\ pc' = "input"
               /\ UNCHANGED <<content, chain, leftover, output, stderr, why, stages>>
          ELSE Panic("input error")
    /\ UNCHANGED Others

\* let mut output = get_output(cmd.output.as_ref()).unwrap();
OpenOutput ==
    /\ pc = "input"
    /\ \E opened \in BOOLEAN :
          IF opened
          THEN /\ pc' = "output"
               /\ UNCHANGED <<content, chain, leftover, output, stderr, why, stages>>
          ELSE Panic("output error")
    /\ UNCHANGED Others

\* let content: Value = match cmd.from { ... from_reader(input).unwrap() ... };
Decode ==
    /\ pc = "output"
    /\ IF doc.ok
       THEN /\ content' = doc.val
            /\ pc' = "decoded"
            /\ stages' = Append(stages, "decode")
            /\ UNCHANGED <<chain, leftover, output, stderr, why>>
       ELSE Panic("decode error")
    /\ UNCHANGED Others

\* if let Some(expr) = &cmd.expr { ... } else { content }
NoExpr ==
    /\ pc = "decoded"
    /\ expr = << >>
    /\ pc' = "selected"
    /\ UNCHANGED <<content, chain, leftover, output, stderr, why, stages>>
    /\ UNCHANGED Others

\* let (s, m) = MatcherChain::parse(&expr).unwrap();
ParseExpr ==
    /\ pc = "decoded"
    /\ expr # << >>
    /\ LET r == MatcherChain_parse(expr[1])
       IN  IF r.ok
           THEN /\ leftover' = r.rest
                /\ chain' = r.val
                /\ pc' = "parsed"
                /\ stages' = Append(stages, "parse")
                /\ UNCHANGED <<content, output, stderr, why>>
           ELSE Panic("parse error")
    /\ UNCHANGED Others

\* A plausible slip: the leftover text is not looked at.
CheckRestIgnored ==
    /\ pc = "parsed"
    /\ pc' = "checked"
    /\ stages' = Append(stages, "check")
    /\ UNCHANGED <<content, chain, leftover, output, stderr, why>>
    /\ UNCHANGED Others

\* if !s.is_empty() { panic!("malformed expr"); }
CheckRest ==
    /\ pc = "parsed"
    /\ IF leftover # << >>
       THEN Panic("malformed expr")
       ELSE /\ pc' = "checked"
            /\ stages' = Append(stages, "check")
            /\ UNCHANGED <<content, chain, leftover, output, stderr, why>>
    /\ UNCHANGED Others

\* m.try_match(&content).unwrap()
Match ==
    /\ pc = "checked"
    /\ LET r == MatcherChain_try_match(chain, content)
       IN  IF r.ok
           THEN /\ content' = r.val
                /\ pc' = "selected"
                /\ stages' = Append(stages, "match")
                /\ UNCHANGED <<chain, leftover, output, stderr, why>>
           ELSE Panic("match error")
    /\ UNCHANGED Others

\* dbg!(&content);
Debug ==
    /\ pc = "selected"
    /\ stderr' = Append(stderr, content)
    /\ pc' = "debugged"
    /\ UNCHANGED <<content, chain, leftover, output, why, stages>>
    /\ UNCHANGED Others

\* match cmd.to { ... to_writer(output, &content).unwrap() ... }
Encode ==
    /\ pc = "debugged"
    /\ \E encoded \in BOOLEAN :
          IF encoded
          THEN /\ output' = Append(output, content)
               /\ pc' = "done"
               /\ stages' = Append(stages, "encode")
               /\ UNCHANGED <<content, chain, leftover, stderr, why>>
          ELSE Panic("encode error")
    /\ UNCHANGED Others

NextDriver ==
    \/ OpenInput
    \/ OpenOutput
    \/ Decode
    \/ NoExpr
    \/ ParseExpr
    \/ CheckRest
    \/ Match
    \/ Debug
    \/ Encode

SpecDriver == InitDriver /\ [][NextDriver]_vars

-----------------------------------------------------------------------------
(* Reference definitions used to state the properties *)

IsPrefix(s, t) == Len(s) <= Len(t) /\ s = SubSeq(t, 1, Len(s))

\* Whether the step can select a child of x, and that child.
Selects(step, x) ==
    IF step.kind = "Name"
    THEN x.k = "Map" /\ step.name \in DOMAIN x.m
    ELSE x.k = "List" /\ step.idx < Len(x.l)

ChildAt(step, x) ==
    IF step.kind = "Name" THEN x.m[step.name] ELSE x.l[step.idx + 1]

\* The concatenation of the sequences xs[1], xs[2], ...
RECURSIVE Concat(_)
Concat(xs) == IF xs = << >> THEN << >> ELSE Head(xs) \o Concat(Tail(xs))

\* The candidates after the first n steps of ss, starting from <<val>>: each
\* step replaces them by the concatenation of its results on every candidate.
RECURSIVE Candidates(_, _, _)
Candidates(val, ss, n) ==
    IF n = 0
    THEN <<val>>
    ELSE LET before == Candidates(val, ss, n - 1)
         IN  Concat([j \in 1..Len(before) |->
                        IF Selects(ss[n], before[j])
                        THEN <<ChildAt(ss[n], before[j])>>
                        ELSE << >>])

\* The number of the first step of ss[n..] that selects nothing, walking down
\* from val (0: every step selects), and the Value that step meets.
RECURSIVE FirstFailing(_, _, _)
FirstFailing(val, ss, n) ==
    IF n > Len(ss)
    THEN 0
    ELSE IF Selects(ss[n], val)
         THEN FirstFailing(ChildAt(ss[n], val), ss, n + 1)
         ELSE n

RECURSIVE Reached(_, _, _)
Reached(val, ss, n) ==
    IF n = 0 THEN val ELSE ChildAt(ss[n], Reached(val, ss, n - 1))

\* The error the specification gives a step that cannot apply to x.
ErrorAt(step, x) ==
    IF step.kind = "Name"
    THEN IF x.k = "Map" THEN NoSuchKey(step.name) ELSE NotAMap
    ELSE IF x.k = "List" THEN OutOfRange(step.idx) ELSE NotAList

\* The step applications a lazy chain needs to produce its first element:
\* step n on val, and the next step on the child if there is one.
RECURSIVE Needed(_, _, _)
Needed(val, ss, n) ==
    IF n > Len(ss)
    THEN << >>
    ELSE LET a == [sel |-> ss[n], on |-> val,
                   res |-> IF Selects(ss[n], val)
                           THEN <<ChildAt(ss[n], val)>> ELSE << >>]
         IN  IF a.res = << >>
             THEN <<a>>
             ELSE <<a>> \o Needed(a.res[1], ss, n + 1)

\* The number of steps of a Selector.
RECURSIVE ChainLen(_)
ChainLen(sel) == IF sel.tag = "Nil" THEN 0 ELSE 1 + ChainLen(sel.next)

\* The number a run of decimal digits denotes.
RECURSIVE DecimalValue(_)
DecimalValue(ds) ==
    IF ds = << >>
    THEN 0
    ELSE 10 * DecimalValue(SubSeq(ds, 1, Len(ds) - 1)) + DigitValue(ds[Len(ds)])

AllIn(s, S) == \A j \in 1..Len(s) : s[j] \in S

\* name_step := ALPHA ALNUM*
IsNameText(s) == s # << >> /\ s[1] \in AsciiAlpha /\ AllIn(s, AlphaNum)

\* index_step := "[" DIGIT+ "]", a valid step when the digits fit a usize.
IsIndexText(s) ==
    /\ Len(s) >= 3
    /\ s[1] = "["
    /\ s[Len(s)] = "]"
    /\ AllIn(SubSeq(s, 2, Len(s) - 1), AsciiDigit)
    /\ DecimalValue(SubSeq(s, 2, Len(s) - 1)) <= UsizeMax

IsStepText(s) == IsNameText(s) \/ IsIndexText(s)

\* chain := step ("." step)*
RECURSIVE IsChainText(_)
IsChainText(s) ==
    \/ IsStepText(s)
    \/ \E j \in 2..(Len(s) - 1) :
          /\ s[j] = "."
          /\ IsStepText(SubSeq(s, 1, j - 1))
          /\ IsChainText(SubSeq(s, j + 1, Len(s)))

\* The digits of a text that starts "[" digits "]" (<< >>: it does not).
BracketRun(s) ==
    IF s # << >> /\ s[1] = "["
    THEN LET n == RunLen(Tail(s), AsciiDigit)
         IN  IF n >= 1 /\ Len(s) >= n + 2 /\ s[n + 2] = "]"
             THEN SubSeq(s, 2, n + 1)
             ELSE << >>
    ELSE << >>

\* iter.collect(): the elements of the stream, drained to its end.
RECURSIVE Drain(_)
Drain(it) ==
    LET r == IterNext(it)
    IN  IF r.out = << >> THEN << >> ELSE r.out \o Drain(r.it)

Collect(ss, val) == Drain(Selector_try_match(from_vec(ss), val).it)

-----------------------------------------------------------------------------
(* The properties *)

\* C1: for a chain of at least one step, the matcher chain succeeds with x
\* exactly when the selector chain built from the same steps yields the
\* stream <<x>>, and it returns one of its four errors exactly when the
\* selector stream is empty.
C1_MatcherSelectorAgree ==
    (Len(sels) >= 1 /\ mres.st \in {"ok", "err"}) =>
        /\ mres.st = "ok" => Collect(sels, v) = <<mres.val>>
        /\ mres.st = "err" =>
              /\ Collect(sels, v) = << >>
              /\ mres.e.err \in {"value is not a map", "map does not contain key",
                                 "value is not a list", "index out of range"}
        /\ Collect(sels, v) = << >> => mres.st = "err"
        /\ Len(Collect(sels, v)) = 1 => mres.st = "ok"

C1_Witness ==
    /\ Len(sels) = 2
    /\ mres.st = "ok"
    /\ sels[2].kind = "Index"
    /\ sels[2].idx = 1

C1_WitnessError ==
    /\ Len(sels) = 2
    /\ mres.st = "err"
    /\ mres.e.err = "index out of range"
    /\ mpos = 2

\* C2: a single selector step applied to a Value yields at most one result and
\* no error: a name step on a Map holding its key yields the value under the
\* key, an index step on a List longer than its index yields the element at
\* the index, and every other application yields nothing.
C2_StepContract ==
    \A j \in 1..Len(log) :
        LET e == log[j]
        IN  /\ Len(e.res) <= 1
            /\ e.res \in Seq(Values)
            /\ e.sel.kind = "Name" =>
                  e.res = IF e.on.k = "Map" /\ e.sel.name \in DOMAIN e.on.m
                          THEN <<e.on.m[e.sel.name]>> ELSE << >>
            /\ e.sel.kind = "Index" =>
                  e.res = IF e.on.k = "List" /\ e.sel.idx < Len(e.on.l)
                          THEN <<e.on.l[e.sel.idx + 1]>> ELSE << >>

C2_Witness ==
    /\ Len(log) = 3
    /\ log[1].sel.kind = "Name" /\ log[1].res # << >>
    /\ log[2].sel.kind = "Index" /\ log[2].sel.idx = 1 /\ log[2].res # << >>
    /\ log[3].res = << >>

\* C3: the stream of Selector::from_vec(s1..sn).try_match(v) is what the
\* candidates <<v>> become after the steps, applied in the order given; it
\* has at most one element, and for no step it is <<v>>.
C3_ChainIsFlatMap ==
    /\ phase \in {"created", "exhausted"} =>
          IsPrefix(out, Candidates(v, sels, Len(sels)))
    /\ phase = "exhausted" =>
          /\ out = Candidates(v, sels, Len(sels))
          /\ Len(out) <= 1
          /\ sels = << >> => out = <<v>>

C3_Witness ==
    /\ phase = "exhausted"
    /\ Len(sels) = 2
    /\ sels[1].kind # sels[2].kind
    /\ out # << >>

\* C4: the matcher chain applies its steps left to right to one current
\* Value and stops at the first step that cannot apply: its error is that of
\* the lowest-numbered failing step, decided by the Value the steps before it
\* reach, no step is applied after it, and without a failing step the result
\* is the Value reached.  [field a, field b] on {"a": 5} fails at the second
\* step with "value is not a map".
C4_ShortCircuit ==
    LET first == FirstFailing(v, sels, 1)
    IN  /\ mres = Running =>
              /\ mapplied = mpos - 1
              /\ first = 0 \/ mpos <= first
              /\ mcur = Reached(v, sels, mpos - 1)
        /\ mres.st = "err" =>
              /\ first # 0
              /\ mpos = first
              /\ mapplied = first
              /\ mres.e = ErrorAt(sels[first], Reached(v, sels, first - 1))
        /\ mres.st = "ok" =>
              /\ first = 0
              /\ mapplied = Len(sels)
              /\ mres.val = Reached(v, sels, Len(sels))
        /\ ( /\ v = VMap([x \in {<<"a">>} |-> VInt(5)])
             /\ sels = <<SName(<<"a">>), SName(<<"b">>)>>
             /\ mres # Running )
           => (mres.st = "err" /\ mres.e = NotAMap /\ mpos = 2)

C4_Witness ==
    /\ v = VMap([x \in {<<"a">>} |-> VInt(5)])
    /\ sels = <<SName(<<"a">>), SName(<<"b">>), SIndex(0)>>
    /\ mres.st = "err"
    /\ mapplied = 2

\* C5 as stated: creating the stream applies no step before the consumer
\* asks for an element.
C5_NoStepBeforeRequest ==
    (phase \in {"created", "dropped"} /\ pulls = 0) => log = << >>

\* C5 as amended: creating the stream applies the first step of the chain to
\* the input and nothing more; every later step is applied only inside a
\* request of the consumer, to the child the step before it yielded, and no
\* step is applied beyond the first one that yields nothing; a consumer that
\* stops causes no further application.
C5_LazyAfterFirstStep ==
    /\ phase = "idle" => log = << >>
    /\ IsPrefix(log, Needed(v, sels, 1))
    /\ (phase # "idle" /\ pulls = 0) =>
          log = SubSeq(Needed(v, sels, 1), 1, IF sels = << >> THEN 0 ELSE 1)
    /\ (pulls >= 1) => log = Needed(v, sels, 1)

C5_Witness ==
    /\ phase = "dropped"
    /\ pulls = 0
    /\ Len(sels) = 3
    /\ Len(Needed(v, sels, 1)) = 3
    /\ Len(log) = 1

\* C6: chain parsing never produces a chain of zero steps: a successful
\* Selector::parse returns a chain of at least one step, never Nil, and the
\* empty text is a parse error.
C6_NoEmptyChain ==
    pkind = "chain" =>
        /\ pres.ok => (pres.val # Nil /\ ChainLen(pres.val) >= 1)
        /\ text = << >> => ~pres.ok

C6_Witness ==
    /\ pkind = "chain"
    /\ pres.ok
    /\ ChainLen(pres.val) = 1
    /\ pres.rest # << >>

\* C7: for every n a usize holds, "[" + decimal(n) + "]" parses to the index
\* step n with nothing left; a bracketed digit run denoting more than
\* usize::MAX is a parse error, and a parsed index is never anything but the
\* number its digits denote.
C7_IndexRoundTrip ==
    pkind = "index" =>
        /\ (num >= 0 /\ num <= UsizeMax) => pres = POk(<< >>, num)
        /\ num > UsizeMax => ~pres.ok
        /\ BracketRun(text) # << >> =>
              IF DecimalValue(BracketRun(text)) > UsizeMax
              THEN ~pres.ok
              ELSE pres.ok /\ pres.val = DecimalValue(BracketRun(text))

C7_Witness ==
    /\ pkind = "index"
    /\ num = UsizeMax
    /\ num >= 10
    /\ pres.ok
    /\ pres.val = num

\* C8: NameSelector::parse succeeds on every text that begins with an ASCII
\* letter, takes the longest leading run of ASCII alphanumerics as the name
\* and returns the rest; it fails on every text that begins with a digit and
\* on every text whose leading alphanumeric run is empty.
C8_NameParse ==
    pkind = "name" =>
        /\ (text # << >> /\ text[1] \in AsciiAlpha) =>
              /\ pres.ok
              /\ pres.val \o pres.rest = text
              /\ AllIn(pres.val, AlphaNum)
              /\ pres.rest = << >> \/ pres.rest[1] \notin AlphaNum
        /\ (text # << >> /\ text[1] \in AsciiDigit) => ~pres.ok
        /\ (text = << >> \/ text[1] \notin AlphaNum) => ~pres.ok

C8_Witness ==
    /\ pkind = "name"
    /\ pres.ok
    /\ Len(pres.val) >= 2
    /\ pres.val[2] \in AsciiDigit
    /\ pres.rest # << >>

C10_AbortBeforeEncode ==
    expr # << >> =>
        LET parsed == MatcherChain_parse(expr[1])
            fails == \/ ~parsed.ok
                     \/ parsed.rest # << >>
                     \/ ~MatcherChain_try_match(parsed.val, doc.val).ok
        IN  /\ why \in {"parse error", "malformed expr", "match error"} =>
                  (pc = "aborted" /\ output = << >> /\ stderr = << >>)
            /\ (pc \in {"parsed", "checked", "selected", "debugged", "done"}
                \/ why \in {"parse error", "malformed expr", "match error",
                            "encode error"}) => doc.ok
            /\ (doc.ok /\ fails) =>
                  /\ pc \notin {"selected", "debugged", "done"}
                  /\ why # "encode error"
                  /\ output = << >>
            /\ (doc.ok /\ ~parsed.ok /\ pc = "aborted") =>
                  why \in {"input error", "output error", "parse error"}
            /\ (doc.ok /\ parsed.ok /\ parsed.rest # << >> /\ pc = "aborted") =>
                  why \in {"input error", "output error", "malformed expr"}
            /\ (pc \in {"selected", "debugged", "done"} \/ why = "encode error") =>
                  SubSeq(stages, 1, 4) = <<"decode", "parse", "check", "match">>
            /\ output # << >> =>
                  /\ pc = "done"
                  /\ output = <<MatcherChain_try_match(parsed.val, doc.val).val>>

C10_Witness ==
    /\ expr # << >>
    /\ pc = "aborted"
    /\ why = "malformed expr"
    /\ stages = <<"decode", "parse">>
    /\ output = << >>

====
